---- MODULE Spec2Model ----
(***************************************************************************)
(* State-machine model of server_manager.py: the supervisor's start, stop, *)
(* restart and status handlers, the PID store, the process-tree            *)
(* terminator and the operating-system state they read and change          *)
(* (process table, connection table, PID files, log files).                *)
(***************************************************************************)
EXTENDS Integers, Sequences, FiniteSets, TLC

(***************************************************************************)
(* Bounds of the model.                                                    *)
(***************************************************************************)
\* process identifiers are 1..MaxProcs; at most MaxProcs processes are alive
MaxProcs == 3
\* a behaviour of Spec holds at most MaxRuns supervisor invocations
MaxRuns == 2
\* a behaviour of SpecMain or of SpecStop holds at most MaxRunsMain
\* supervisor invocations
MaxRunsMain == 1
\* a behaviour holds at most MaxEnv steps in which a process forks, opens a
\* socket, appears from outside or writes output
MaxEnv == 2
\* a log file holds at most MaxLog lines
MaxLog == 1
\* longest PID-file text drawn as an input of the PID store
MaxText == 3
\* largest PID value written by the PID store specification
MaxPidValue == 12
\* largest --tail value of an invocation
MaxTail == 2
\* longest log drawn as an input of tail_log
MaxLines == 3

(***************************************************************************)
(* Configuration (the validated ServerConfig values of SERVERS).           *)
(***************************************************************************)
SERVER_ORDER == <<"backend", "frontend">>
Servers == {SERVER_ORDER[k] : k \in 1..Len(SERVER_ORDER)}
PortsOf(s) == IF s = "backend" THEN {8080} ELSE {3000}
AllPorts == UNION {PortsOf(s) : s \in Servers}
Supervisors == {1, 2}

Pids == 1..MaxProcs
None == <<>>
Some(x) == <<x>>

(***************************************************************************)
(* Text <-> integer conversions used by the PID store.  A text is a        *)
(* sequence of one-character strings.                                      *)
(***************************************************************************)
Digits == <<"0", "1", "2", "3", "4", "5", "6", "7", "8", "9">>
IsDigit(c) == \E d \in 1..10 : Digits[d] = c
DigitVal(c) == (CHOOSE d \in 1..10 : Digits[d] = c) - 1
IsSpace(c) == c \in {" ", "\n"}

RECURSIVE StrNat(_)
\* str(n) for n >= 0: decimal digits, most significant first
StrNat(n) == IF n < 10 THEN <<Digits[n + 1]>>
             ELSE Append(StrNat(n \div 10), Digits[(n % 10) + 1])
\* str(n)
Str(n) == IF n < 0 THEN <<"-">> \o StrNat(0 - n) ELSE StrNat(n)

RECURSIVE Strip(_)
\* str.strip(): drop leading and trailing whitespace
Strip(t) == IF t = <<>> THEN t
            ELSE IF IsSpace(Head(t)) THEN Strip(Tail(t))
            ELSE IF IsSpace(t[Len(t)]) THEN Strip(SubSeq(t, 1, Len(t) - 1))
            ELSE t

RECURSIVE NatOf(_)
\* value of a non-empty sequence of digits
NatOf(t) == IF Len(t) = 1 THEN DigitVal(t[1])
            ELSE 10 * NatOf(SubSeq(t, 1, Len(t) - 1)) + DigitVal(t[Len(t)])

\* the digits of an integer literal: digits, with single underscores allowed
\* between two digits
Literal(t) ==
    /\ t # <<>>
    /\ \A k \in 1..Len(t) : IsDigit(t[k]) \/ t[k] = "_"
    /\ IsDigit(t[1]) /\ IsDigit(t[Len(t)])
    /\ \A k \in 1..(Len(t) - 1) : ~(t[k] = "_" /\ t[k + 1] = "_")

\* the text without its underscores
NoUnderscores(t) == SelectSeq(t, LAMBDA c : c # "_")

\* int(text): None stands for ValueError
ParseInt(t) ==
    LET u == Strip(t)
        signed == u # <<>> /\ Head(u) \in {"-", "+"}
        body == IF signed THEN Tail(u) ELSE u
    IN IF ~Literal(body) THEN None
       ELSE IF signed /\ Head(u) = "-" THEN Some(0 - NatOf(NoUnderscores(body)))
       ELSE Some(NatOf(NoUnderscores(body)))

\* A PID file is None (absent) or Some(text).  A call of the PID store ends
\* with a value, or with the exception it lets through (raised).
NoRaise == "none"

\* Path.read_text
read_text(file) ==
    IF file = None THEN [raised |-> "FileNotFoundError", text |-> <<>>]
    ELSE [raised |-> NoRaise, text |-> file[1]]

\* int(pid_text)
int_of(t) ==
    IF ParseInt(t) = None THEN [raised |-> "ValueError", value |-> None]
    ELSE [raised |-> NoRaise, value |-> ParseInt(t)]

\* the exceptions the except clauses of read_pid catch
ReadPidCaught == {"FileNotFoundError", "ValueError", "OSError"}

\* read_pid as a call: what it returns and what it raises
read_pid_call(file) ==
    LET rt == read_text(file)
        iv == int_of(Strip(rt.text))
        raised == IF rt.raised # NoRaise THEN rt.raised ELSE iv.raised
    IN IF raised = NoRaise THEN [raised |-> NoRaise, value |-> iv.value]
       ELSE IF raised \in ReadPidCaught THEN [raised |-> NoRaise, value |-> None]
       ELSE [raised |-> raised, value |-> None]

\* read_pid(pid_file)
read_pid(file) == read_pid_call(file).value

\* write_pid that writes an empty file
write_pid_empty(pid) == Some(<<>>)

\* write_pid(pid_file, pid)
write_pid(pid) == Some(Str(pid))

\* Path.unlink
unlink(file) ==
    IF file = None THEN [raised |-> "FileNotFoundError", file |-> None]
    ELSE [raised |-> NoRaise, file |-> None]

\* remove_pid_file as a call: the file afterwards and what it raises
remove_pid_call(file) ==
    LET u == unlink(file)
    IN [raised |-> IF u.raised = "FileNotFoundError" THEN NoRaise ELSE u.raised,
        file |-> u.file]

\* remove_pid_file that leaves the file in place
remove_pid_file_keeps(file) == file

\* remove_pid_file(pid_file)
remove_pid_file(file) == remove_pid_call(file).file

\* Python truthiness of an optional int: None and 0 are false
Truthy(opt) == opt # None /\ opt[1] # 0

VARIABLES
    procs,      \* the process identifiers the OS reports as existing
    parent,     \* parent[p]: parent process of p (0: none that is modelled;
                \* SpawnedFor(s): a supervisor invocation, by start_server for s)
    conns,      \* conns[p]: the inet sockets of p, as <<local port, status>>
    out,        \* out[p]: where the stdout/stderr of p goes
    pidFile,    \* pidFile[s]: the PID file of server s
    logFile,    \* logFile[s]: the log file of server s, a sequence of lines
    sup,        \* sup[i]: the supervisor invocation i (locals and position)
    env         \* the number of environment steps counted against MaxEnv

osVars == <<procs, parent, conns, out>>
fsVars == <<pidFile, logFile>>
vars == <<procs, parent, conns, out, pidFile, logFile, sup, env>>


(***************************************************************************)
(* The operating system: process table and connection table.               *)
(***************************************************************************)
Statuses == {"LISTEN", "ESTABLISHED"}
NoOut == [k |-> "none", s |-> "", i |-> 0]
LogOut(s) == [k |-> "log", s |-> s, i |-> 0]
PipeOut(i) == [k |-> "pipe", s |-> "", i |-> i]

\* the parent of the process spawn_process creates for server s: the
\* invocation itself, noted as minus the position of s in SERVER_ORDER
SpawnedFor(s) == 0 - (CHOOSE k \in 1..Len(SERVER_ORDER) : SERVER_ORDER[k] = s)

\* the live processes that start_server spawned for server s
Roots(s) == {p \in procs : parent[p] = SpawnedFor(s)}

\* psutil.pid_exists(pid)
pid_exists(pid) == pid \in procs

\* a liveness test that takes every pid for alive
process_is_running_always(pid) == TRUE

\* process_is_running(pid)
process_is_running(pid) == IF pid <= 0 THEN FALSE ELSE pid_exists(pid)

RECURSIVE Descendants(_, _)
\* proc.children(recursive=True): the transitive children of root, given
\* the parent relation par
Descendants(root, par) ==
    LET kids == {p \in procs : par[p] = root}
    IN kids \cup UNION {Descendants(k, par) : k \in kids}

\* the process table after the processes of D have exited: their children
\* are re-parented away, their sockets and handles are closed
Die(D) ==
    /\ procs' = procs \ D
    /\ parent' = [p \in Pids |-> IF p \in D \/ parent[p] \in D THEN 0 ELSE parent[p]]
    /\ conns' = [p \in Pids |-> IF p \in D THEN {} ELSE conns[p]]
    /\ out' = [p \in Pids |-> IF p \in D THEN NoOut ELSE out[p]]

Listeners(port) == {p \in procs : <<port, "LISTEN">> \in conns[p]}

\* identifiers the OS can give a new process: not in use, not that of an
\* exited child a running invocation has not waited for yet, and not one a
\* psutil.Process handle of a running invocation stands for (psutil tells a
\* reused identifier from the process it resolved)
FreePids ==
    Pids \ (procs \cup {sup[i].process : i \in Supervisors}
                  \cup {sup[i].tpid : i \in Supervisors}
                  \cup UNION {sup[i].children : i \in Supervisors})

\* the supervisor is asleep or waiting (time.sleep, a wait with a timeout,
\* the read of the child's output) or no invocation is running
Blocking == {"idle", "start_bg_poll", "start_fg_stream", "term_wait_children",
             "term_wait_root", "restart_settle"}

\* a process exits on its own (or by a signal sent earlier)
ProcExit(p) ==
    /\ p \in procs
    /\ Die({p})
    /\ UNCHANGED <<pidFile, logFile, sup>>

\* a process forks a child, which inherits its sockets and its stdout
ProcFork(p) ==
    /\ p \in procs
    /\ Cardinality(procs) < MaxProcs
    /\ \E q \in FreePids :
        /\ procs' = procs \cup {q}
        /\ parent' = [parent EXCEPT ![q] = p]
        /\ conns' = [conns EXCEPT ![q] = conns[p]]
        /\ out' = [out EXCEPT ![q] = out[p]]
    /\ UNCHANGED <<pidFile, logFile, sup>>

\* a process opens a socket on a local port; a port has one listening socket
ProcBind(p, port, st) ==
    /\ p \in procs
    /\ conns[p] = {}
    /\ st = "LISTEN" => Listeners(port) = {}
    /\ conns' = [conns EXCEPT ![p] = {<<port, st>>}]
    /\ UNCHANGED <<procs, parent, out, pidFile, logFile, sup>>

\* a process that the supervisor did not start appears, with the sockets cs
ExternalSpawn(cs) ==
    /\ Cardinality(procs) < MaxProcs
    /\ \A c \in cs : c[2] = "LISTEN" => Listeners(c[1]) = {}
    /\ \E q \in FreePids :
        /\ procs' = procs \cup {q}
        /\ parent' = [parent EXCEPT ![q] = 0]
        /\ conns' = [conns EXCEPT ![q] = cs]
        /\ out' = [out EXCEPT ![q] = NoOut]
    /\ UNCHANGED <<pidFile, logFile, sup>>

\* a background process writes a line to the log file it holds open
ProcWrite(p) ==
    /\ p \in procs
    /\ out[p].k = "log"
    /\ logFile[out[p].s] # None
    /\ Len(logFile[out[p].s][1]) < MaxLog
    /\ logFile' = [logFile EXCEPT ![out[p].s] = Some(Append(@[1], p))]
    /\ UNCHANGED <<procs, parent, conns, out, pidFile, sup>>

(***************************************************************************)
(* A supervisor invocation: its position in main and in the handlers, the  *)
(* locals of the handlers, and a record of the calls the current handler   *)
(* has made.                                                               *)
(***************************************************************************)
Actions == {"start", "stop", "restart", "status"}
Targets == Servers \cup {"both"}

IdleSup == [pc |-> "idle", runs |-> 0, action |-> "none", configs |-> <<>>,
            flag |-> FALSE, background |-> FALSE, idx |-> 0, exitCode |-> -1,
            pid |-> None, process |-> 0, append_logs |-> FALSE,
            logfh |-> "none", stopped |-> FALSE, candidates |-> {},
            tpid |-> 0, children |-> {}, todo |-> {}, caller |-> "none",
            signalled |-> {}, waited |-> FALSE, alive |-> {}, killed |-> {},
            report |-> [running |-> FALSE, listening |-> {}, logs |-> <<>>],
            tail |-> 0, concurrent |-> FALSE, started |-> {}, calls |-> <<>>, raised |-> NoRaise,
            had_file |-> FALSE, scanned |-> FALSE, scan_error |-> FALSE,
            found |-> {}, attempted |-> {}]

Init ==
    /\ procs = {}
    /\ parent = [p \in Pids |-> 0]
    /\ conns = [p \in Pids |-> {}]
    /\ out = [p \in Pids |-> NoOut]
    /\ pidFile = [s \in Servers |-> None]
    /\ logFile = [s \in Servers |-> None]
    /\ sup = [i \in Supervisors |-> IdleSup]
    /\ env = 0

\* the values of --tail
TailArgs == 0..MaxTail

\* content[start:] of a Python list, start negative, zero or positive
SliceFrom(content, start) ==
    LET L == Len(content)
        from == IF start < 0
                THEN (IF L + start < 0 THEN 0 ELSE L + start)
                ELSE (IF start > L THEN L ELSE start)
    IN SubSeq(content, from + 1, L)

\* tail_log(log_file, lines): content[-lines:], nothing for an absent file
tail_log(log, lines) ==
    IF log = None THEN <<>> ELSE SliceFrom(log[1], 0 - lines)

\* resolve_targets(target)
resolve_targets(target) == IF target = "both" THEN SERVER_ORDER ELSE <<target>>

\* the ServerConfig the loop of main is at
Config(r) == r.configs[r.idx]

\* first position of the handler main calls for an action
Entry(action) == CASE action = "start" -> "start_check"
                   [] action = "stop" -> "stop_read"
                   [] action = "restart" -> "stop_read"
                   [] action = "status" -> "status"

\* a handler returns: its locals are gone
Locals(r) == [r EXCEPT !.pid = None, !.process = 0, !.append_logs = FALSE,
                       !.logfh = "none", !.stopped = FALSE, !.candidates = {},
                       !.caller = "none"]

\* the loop of main after a handler returned: next config or return 0
AfterHandler(r) ==
    IF r.idx >= Len(r.configs)
    THEN [Locals(r) EXCEPT !.pc = "exited", !.exitCode = 0]
    ELSE [Locals(r) EXCEPT !.idx = @ + 1, !.pc = Entry(r.action), !.calls = <<>>,
                           !.had_file = FALSE, !.scanned = FALSE, !.scan_error = FALSE,
                           !.found = {}, !.attempted = {}]

\* sys.exit(code), raise SystemExit or an uncaught exception: the
\* invocation ends at once
SysExit(r, code) == [Locals(r) EXCEPT !.pc = "exited", !.exitCode = code]

\* the handler notes a call it makes
Call(r, what) == [r EXCEPT !.calls = Append(@, what)]

\* main(argv), from module load (load_server_configs) and parse_args to the
\* first handler
Invoke(i, action, target, bg, tail, cfgOk, limit) ==
    /\ sup[i].pc = "idle"
    /\ sup[i].runs < limit
    /\ sup' = [sup EXCEPT ![i] =
         IF ~cfgOk THEN SysExit([sup[i] EXCEPT !.action = action, !.runs = @ + 1], 1)
         ELSE IF action \notin Actions THEN SysExit([sup[i] EXCEPT !.action = action, !.runs = @ + 1], 2)
         ELSE LET configs == resolve_targets(target)
              IN [sup[i] EXCEPT
                    !.runs = @ + 1,
                    !.action = action,
                    !.configs = configs,
                    !.flag = bg,
                    !.tail = IF action = "status" THEN tail ELSE 0,
                    !.concurrent = \E j \in Supervisors \ {i} :
                                       sup[j].pc \notin {"idle", "exited"},
                    !.background = bg \/ (Len(configs) > 1 /\ action \in {"start", "restart"}),
                    !.idx = 1,
                    !.pc = Entry(action)]]
    /\ UNCHANGED <<procs, parent, conns, out, pidFile, logFile>>

\* the invocation's process is gone; the next one starts from scratch
Reap(i) ==
    /\ sup[i].pc = "exited"
    /\ sup' = [sup EXCEPT ![i] = [IdleSup EXCEPT !.runs = sup[i].runs]]
    /\ UNCHANGED <<procs, parent, conns, out, pidFile, logFile>>

(***************************************************************************)
(* start_server                                                            *)
(***************************************************************************)
\* prepare_log_file that reports a fresh log without deleting the old one
prepare_log_file_no_unlink(log, ok) ==
    [log |-> log, append_logs |-> FALSE, unlinked |-> FALSE]

\* prepare_log_file: ok says whether unlink succeeds (OSError otherwise)
prepare_log_file(log, ok) ==
    IF log # None /\ ok THEN [log |-> None, append_logs |-> FALSE, unlinked |-> TRUE]
    ELSE [log |-> log, append_logs |-> TRUE, unlinked |-> FALSE]

\* open(path, "wb") / open(path, "ab") on a log file
open_log(log, mode) ==
    IF mode = "wb" \/ log = None THEN Some(<<>>) ELSE log

\* ensure_directory and ensure_command_available: pre is what they find
ensure_ok(pre) == pre = "ok"

\* the already-running test with the liveness test inverted
already_running_inverted(existing_pid) ==
    Truthy(existing_pid) /\ ~process_is_running(existing_pid[1])

\* an already-running test that never finds the server running
already_running_never(existing_pid) == FALSE

\* the already-running test of start_server
already_running(existing_pid) ==
    Truthy(existing_pid) /\ process_is_running(existing_pid[1])

\* start_server up to the already-running test
StartCheck(i) ==
    LET r == sup[i]
        s == Config(r)
        called == [r EXCEPT !.started = @ \cup {s}]
        existing_pid == read_pid(pidFile[s])
    IN
    /\ r.pc = "start_check"
    /\ \E pre \in {"ok", "nodir", "noexe"} :
        sup' = [sup EXCEPT ![i] =
          IF ~ensure_ok(pre)
          THEN SysExit(Call(called, pre), 1)
          ELSE IF already_running(existing_pid)
          THEN AfterHandler(Call(called, "already"))
          ELSE [called EXCEPT !.pid = existing_pid, !.pc = "start_spawn"]]
    /\ UNCHANGED <<procs, parent, conns, out, pidFile, logFile>>

\* prepare_log_file and spawn_process
StartSpawn(i) ==
    LET r == sup[i]
        s == Config(r)
    IN
    /\ r.pc = "start_spawn"
    /\ Cardinality(procs) < MaxProcs
    /\ \E q \in FreePids, ok \in BOOLEAN :
        LET prep == prepare_log_file(logFile[s], ok)
            held == [p \in Pids |->
                       IF prep.unlinked /\ out[p] = LogOut(s) THEN NoOut ELSE out[p]]
        IN
        /\ (logFile[s] = None) => ok
        /\ procs' = procs \cup {q}
        /\ parent' = [parent EXCEPT ![q] = SpawnedFor(s)]
        /\ conns' = [conns EXCEPT ![q] = {}]
        /\ IF r.background
           THEN /\ logFile' = [logFile EXCEPT ![s] =
                      open_log(prep.log, IF prep.append_logs THEN "ab" ELSE "wb")]
                /\ out' = [held EXCEPT ![q] = LogOut(s)]
           ELSE /\ logFile' = [logFile EXCEPT ![s] = prep.log]
                /\ out' = [held EXCEPT ![q] = PipeOut(i)]
        /\ sup' = [j \in Supervisors |->
             IF j = i
             THEN Call([r EXCEPT !.pc = "start_write_pid", !.process = q,
                                 !.append_logs = prep.append_logs], "spawn")
             ELSE IF prep.unlinked /\ sup[j].logfh = "open" /\ Config(sup[j]) = s
             THEN [sup[j] EXCEPT !.logfh = "unlinked"]
             ELSE sup[j]]
    /\ UNCHANGED pidFile

\* write_pid, then the branch on background (foreground: the log is opened
\* by stream_foreground_output)
StartWritePid(i) ==
    LET r == sup[i]
        s == Config(r)
    IN
    /\ r.pc = "start_write_pid"
    /\ pidFile' = [pidFile EXCEPT ![s] = write_pid(r.process)]
    /\ IF r.background
       THEN /\ sup' = [sup EXCEPT ![i] = [r EXCEPT !.pc = "start_bg_poll"]]
            /\ UNCHANGED logFile
       ELSE /\ sup' = [sup EXCEPT ![i] = [r EXCEPT !.pc = "start_fg_stream", !.logfh = "open"]]
            /\ logFile' = [logFile EXCEPT ![s] =
                  open_log(@, IF @ # None THEN "ab" ELSE "wb")]
    /\ UNCHANGED <<procs, parent, conns, out>>

\* background: time.sleep(2), process.poll(), return
StartBgPoll(i) ==
    LET r == sup[i] IN
    /\ r.pc = "start_bg_poll"
    /\ sup' = [sup EXCEPT ![i] =
         AfterHandler(Call(r, IF r.process \in procs THEN "running" ELSE "exited"))]
    /\ UNCHANGED <<procs, parent, conns, out, pidFile, logFile>>

\* foreground: one line of the child's output is copied to the log
FgTee(i) ==
    LET r == sup[i]
        s == Config(r)
    IN
    /\ r.pc = "start_fg_stream"
    /\ r.logfh = "open"
    /\ logFile[s] # None
    /\ Len(logFile[s][1]) < MaxLog
    /\ \E p \in procs :
        /\ out[p] = PipeOut(i)
        /\ logFile' = [logFile EXCEPT ![s] = Some(Append(@[1], p))]
    /\ UNCHANGED <<procs, parent, conns, out, pidFile, sup>>

\* foreground: end of the child's output, process.wait(), remove_pid_file
FgFinish(i) ==
    LET r == sup[i]
        s == Config(r)
    IN
    /\ r.pc = "start_fg_stream"
    /\ ~\E p \in procs : out[p] = PipeOut(i)
    /\ pidFile' = [pidFile EXCEPT ![s] = remove_pid_file(@)]
    /\ sup' = [sup EXCEPT ![i] = AfterHandler(Call(r, "fg_exit"))]
    /\ UNCHANGED <<procs, parent, conns, out, logFile>>

(***************************************************************************)
(* terminate_process_tree                                                  *)
(***************************************************************************)
\* restart_server without its time.sleep(2)
AfterStop_no_settle(r) ==
    IF r.action = "restart" THEN [Locals(r) EXCEPT !.pc = "start_check"]
    ELSE AfterHandler(r)

\* stop_server has returned: restart_server goes on, main's loop otherwise
AfterStop(r) ==
    IF r.action = "restart" THEN [r EXCEPT !.pc = "restart_settle"]
    ELSE AfterHandler(r)

\* terminate_process_tree returns result to its call site in stop_server
TermReturn(r, result) ==
    LET base == Call([r EXCEPT !.tpid = 0, !.children = {}, !.todo = {},
                               !.signalled = {}, !.waited = FALSE, !.alive = {}, !.killed = {}],
                     IF result THEN "ret_true" ELSE "ret_false")
    IN IF r.caller = "stop_recorded"
       THEN [base EXCEPT !.stopped = result, !.pc = "stop_after_term"]
       ELSE IF base.candidates = {} THEN AfterStop(base)
       ELSE [base EXCEPT !.pc = "stop_candidates"]

\* terminate_process_tree going to the root first
after_resolve_root_first(kids) == "term_root"

\* where terminate_process_tree goes once the handle of the root and the
\* list of its descendants are there
after_resolve(kids) == IF kids = {} THEN "term_root" ELSE "term_children"

\* entry: the pid test, psutil.Process(pid), proc.children(recursive=True)
TermResolve(i) ==
    LET r == sup[i]
        called == Call([r EXCEPT !.attempted = @ \cup {r.tpid}],
                       IF r.caller = "stop_recorded" THEN "terminate" ELSE "terminate_port")
        kids == Descendants(r.tpid, parent)
    IN
    /\ r.pc = "term_resolve"
    /\ \E denied \in BOOLEAN :
        /\ denied => r.tpid \in procs
        /\ sup' = [sup EXCEPT ![i] =
             IF r.tpid <= 0 \/ r.tpid \notin procs \/ denied
             THEN TermReturn(called, FALSE)
             ELSE [called EXCEPT !.children = kids, !.todo = kids,
                                 !.pc = after_resolve(kids)]]
    /\ UNCHANGED <<procs, parent, conns, out, pidFile, logFile>>

\* child.terminate() for one child of the list; psutil.Error is swallowed
TermChild(i) ==
    LET r == sup[i] IN
    /\ r.pc = "term_children"
    /\ \E c \in r.todo :
        sup' = [sup EXCEPT ![i] = [r EXCEPT
                  !.todo = @ \ {c},
                  !.signalled = @ \cup {c},
                  !.pc = IF r.todo = {c} THEN "term_wait_children" ELSE @]]
    /\ UNCHANGED <<procs, parent, conns, out, pidFile, logFile>>

\* a wait that ends only when the awaited processes are gone
wait_over_no_timeout(pending, timeout) == pending = {}

\* a wait is over when the awaited processes are gone or, with a timeout,
\* when the timeout expires
wait_over(pending, timeout) == timeout \/ pending = {}

\* psutil.wait_procs(children, timeout=3): the survivors are those still
\* existing when the wait ends
TermWaitChildren(i) ==
    LET r == sup[i]
        alive == r.children \cap procs
    IN
    /\ r.pc = "term_wait_children"
    /\ wait_over(alive, TRUE)
    /\ sup' = [sup EXCEPT ![i] = [r EXCEPT
                 !.todo = alive,
                 !.alive = alive,
                 !.waited = TRUE,
                 !.pc = IF alive = {} THEN "term_root" ELSE "term_kill"]]
    /\ UNCHANGED <<procs, parent, conns, out, pidFile, logFile>>

\* survivor.kill() for one survivor; psutil.Error is swallowed.  The
\* survivor dies at once, or it survives (the kill is refused, or has not
\* taken effect yet).
TermKill(i) ==
    LET r == sup[i] IN
    /\ r.pc = "term_kill"
    /\ \E c \in r.todo, outcome \in {"dies", "survives"} :
        /\ outcome = "dies" => c \in procs
        /\ IF outcome = "dies"
           THEN Die({c})
           ELSE UNCHANGED <<procs, parent, conns, out>>
        /\ sup' = [sup EXCEPT ![i] = [r EXCEPT
                  !.todo = @ \ {c},
                  !.killed = @ \cup {c},
                  !.pc = IF r.todo = {c} THEN "term_root" ELSE @]]
    /\ UNCHANGED <<pidFile, logFile>>

\* proc.terminate(); psutil.Error returns False
TermRoot(i) ==
    LET r == sup[i] IN
    /\ r.pc = "term_root"
    /\ \E denied \in BOOLEAN :
        /\ denied => r.tpid \in procs
        /\ sup' = [sup EXCEPT ![i] =
             IF r.tpid \notin procs \/ denied
             THEN TermReturn(r, FALSE)
             ELSE [r EXCEPT !.pc = "term_wait_root"]]
    /\ UNCHANGED <<procs, parent, conns, out, pidFile, logFile>>

\* what proc.wait(timeout=5) returns into: True when the root is gone
root_wait_result(gone) == gone

\* proc.wait(timeout=5): True when the root is gone; on TimeoutExpired
\* proc.kill() and False.  proc.kill() is not guarded: when the root exits
\* between the timeout and the kill, NoSuchProcess leaves main as an
\* uncaught exception (exit code 1).
TermWaitRoot(i) ==
    LET r == sup[i] IN
    /\ r.pc = "term_wait_root"
    /\ wait_over({r.tpid} \cap procs, TRUE)
    /\ IF r.tpid \notin procs
       THEN /\ sup' = [sup EXCEPT ![i] = TermReturn(r, root_wait_result(TRUE))]
            /\ UNCHANGED <<procs, parent, conns, out>>
       ELSE \E outcome \in {"dies", "pending", "gone"} :
            /\ IF outcome = "pending"
               THEN UNCHANGED <<procs, parent, conns, out>>
               ELSE Die({r.tpid})
            /\ sup' = [sup EXCEPT ![i] =
                 IF outcome = "gone"
                 THEN SysExit(Call([r EXCEPT !.tpid = 0, !.children = {}, !.todo = {},
                                      !.signalled = {}, !.waited = FALSE,
                                      !.alive = {}, !.killed = {},
                                      !.raised = "NoSuchProcess"],
                                   "exception"), 1)
                 ELSE TermReturn(Call(r, "root_kill"), root_wait_result(FALSE))]
    /\ UNCHANGED <<pidFile, logFile>>

(***************************************************************************)
(* stop_server, restart_server, show_status                                *)
(***************************************************************************)
\* the scan of stop_server restricted to listening sockets
PortOwners_listen_only(s) ==
    {p \in procs : \E c \in conns[p] : c[1] \in PortsOf(s) /\ c[2] = "LISTEN"}

\* the pids psutil.net_connections reports with a local port of the server
\* (stop_server does not look at the status of the connection)
PortOwners(s) ==
    {p \in procs : \E c \in conns[p] : c[1] \in PortsOf(s)}

\* stop_server: read_pid, the liveness test, the call of the terminator
StopRead(i) ==
    LET r == sup[i]
        s == Config(r)
        pid == read_pid(pidFile[s])
        called == Call([r EXCEPT !.pid = pid, !.had_file = pidFile[s] # None], "read_pid")
    IN
    /\ r.pc = "stop_read"
    /\ sup' = [sup EXCEPT ![i] =
         IF Truthy(pid) /\ process_is_running(pid[1])
         THEN [called EXCEPT !.pc = "term_resolve", !.tpid = pid[1],
                             !.caller = "stop_recorded"]
         ELSE [called EXCEPT !.pc = "stop_after_term"]]
    /\ UNCHANGED <<procs, parent, conns, out, pidFile, logFile>>

\* a stale test that never finds the recorded process dead
stale_pid_never(pid) == FALSE

\* a stale test that takes every recorded pid for dead
stale_pid_always(pid) == Truthy(pid)

\* stop_server: "pid and not process_is_running(pid)"
stale_pid(pid) == Truthy(pid) /\ ~process_is_running(pid[1])

\* stop_server from "if stopped": the PID file is removed and stop returns,
\* or the stale PID file is removed and the expected ports are scanned.
\* net_connections can raise psutil.Error (no candidates), and reports no
\* pid for the sockets it may not attribute (the set hidden).
StopAfterTerm(i) ==
    LET r == sup[i]
        s == Config(r)
        stale == stale_pid(r.pid)
    IN
    /\ r.pc = "stop_after_term"
    /\ IF r.stopped
       THEN /\ pidFile' = [pidFile EXCEPT ![s] = remove_pid_file(@)]
            /\ sup' = [sup EXCEPT ![i] = AfterStop(r)]
       ELSE /\ pidFile' = [pidFile EXCEPT ![s] = IF stale THEN remove_pid_file(@) ELSE @]
            /\ \E error \in BOOLEAN, hidden \in SUBSET PortOwners(s) :
                LET candidates == IF error THEN {} ELSE PortOwners(s) \ hidden
                    scan == [r EXCEPT !.candidates = candidates, !.scanned = TRUE,
                               !.scan_error = error \/ hidden # {},
                               !.found = candidates]
                IN
                /\ error => hidden = {}
                /\ sup' = [sup EXCEPT ![i] =
                     IF candidates = {} THEN AfterStop(scan)
                     ELSE [scan EXCEPT !.pc = "stop_candidates"]]
    /\ UNCHANGED <<procs, parent, conns, out, logFile>>

\* the loop over the candidates: terminate_process_tree(candidate)
StopCandidate(i) ==
    LET r == sup[i] IN
    /\ r.pc = "stop_candidates"
    /\ \E c \in r.candidates :
        sup' = [sup EXCEPT ![i] = [r EXCEPT
                  !.candidates = @ \ {c}, !.tpid = c,
                  !.caller = "stop_candidate", !.pc = "term_resolve"]]
    /\ UNCHANGED <<procs, parent, conns, out, pidFile, logFile>>

\* restart_server between stop_server and start_server: time.sleep(2)
RestartSettle(i) ==
    LET r == sup[i] IN
    /\ r.pc = "restart_settle"
    /\ sup' = [sup EXCEPT ![i] = Call([Locals(r) EXCEPT !.pc = "start_check"], "settle")]
    /\ UNCHANGED <<procs, parent, conns, out, pidFile, logFile>>

\* port_is_listening(port): a LISTEN entry of the connection table, or
\* else a TCP connect to the loopback address, which a listener accepts
port_is_listening(port, tableOk) ==
    \/ tableOk /\ \E p \in procs : <<port, "LISTEN">> \in conns[p]
    \/ Listeners(port) # {}

\* show_status
ShowStatus(i) ==
    LET r == sup[i]
        s == Config(r)
        pid == read_pid(pidFile[s])
    IN
    /\ r.pc = "status"
    /\ \E tableOk \in BOOLEAN :
        sup' = [sup EXCEPT ![i] = AfterHandler([r EXCEPT
                  !.report = [running |-> Truthy(pid) /\ process_is_running(pid[1]),
                              listening |-> {port \in PortsOf(s) :
                                               port_is_listening(port, tableOk)},
                              logs |-> tail_log(logFile[s], r.tail)]])]
    /\ UNCHANGED <<procs, parent, conns, out, pidFile, logFile>>

(***************************************************************************)
(* The system: one supervisor invocation at a time, beside the processes   *)
(* of the operating system.                                                *)
(***************************************************************************)
SupStep(i) ==
    \/ StartCheck(i) /\ UNCHANGED env
    \/ StartSpawn(i) /\ UNCHANGED env
    \/ StartWritePid(i) /\ UNCHANGED env
    \/ StartBgPoll(i) /\ UNCHANGED env
    \/ FgTee(i) /\ UNCHANGED env
    \/ FgFinish(i) /\ UNCHANGED env
    \/ StopRead(i) /\ UNCHANGED env
    \/ StopAfterTerm(i) /\ UNCHANGED env
    \/ StopCandidate(i) /\ UNCHANGED env
    \/ TermResolve(i) /\ UNCHANGED env
    \/ TermChild(i) /\ UNCHANGED env
    \/ TermWaitChildren(i) /\ UNCHANGED env
    \/ TermKill(i) /\ UNCHANGED env
    \/ TermRoot(i) /\ UNCHANGED env
    \/ TermWaitRoot(i) /\ UNCHANGED env
    \/ RestartSettle(i) /\ UNCHANGED env
    \/ ShowStatus(i) /\ UNCHANGED env
    \/ Reap(i) /\ UNCHANGED env

\* the sets of sockets a process appears with: none or one
SocketSets == {{}} \cup {{<<port, st>>} : port \in AllPorts, st \in Statuses}

\* no ended invocation is waiting to be reaped
Quiet == \A i \in Supervisors : sup[i].pc # "exited"

\* one more counted environment step, taken while the supervisor sleeps or
\* waits (the code between two such points runs without a pause)
Counted ==
    /\ env < MaxEnv
    /\ env' = env + 1
    /\ \A i \in Supervisors : sup[i].pc \in Blocking

\* the processes exit at any time; they fork, open sockets, appear and
\* write while the supervisor sleeps or waits
OsStep ==
    \/ Quiet /\ UNCHANGED env /\ \E p \in Pids : ProcExit(p)
    \/ Counted /\ \E p \in Pids : ProcFork(p)
    \/ Counted /\ \E p \in Pids, port \in AllPorts, st \in Statuses : ProcBind(p, port, st)
    \/ Counted /\ \E cs \in SocketSets : ExternalSpawn(cs)
    \/ Counted /\ \E p \in Pids : ProcWrite(p)

\* the invocations of supervisor i: every command line over the targets
Invocations(i, targets, limit) ==
    /\ UNCHANGED env
    /\ \E action \in Actions \cup {"bogus"}, target \in targets,
          bg \in BOOLEAN, tail \in TailArgs, cfgOk \in BOOLEAN :
            Invoke(i, action, target, bg, tail, cfgOk, limit)

\* invocations that name the first server of the configuration
Next ==
    \/ Invocations(1, {SERVER_ORDER[1]}, MaxRuns)
    \/ SupStep(1)
    \/ OsStep

Spec == Init /\ [][Next]_vars

\* invocations with every target, "both" included
NextMain ==
    \/ Invocations(1, Targets, MaxRunsMain)
    \/ SupStep(1)
    \/ OsStep

SpecMain == Init /\ [][NextMain]_vars


(***************************************************************************)
(* stop_server on its own: one stop of the first server, from any process  *)
(* table (a forest of processes, each with no socket or listening on the   *)
(* server's port, listeners of one port being parent and child) and any    *)
(* PID file that write_pid leaves.  The invocation is scheduled: a step it *)
(* can take is taken in the end.  While it waits, processes exit or stay   *)
(* as they please: no process is obliged to exit.                          *)
(***************************************************************************)
StopSockets == {{}} \cup {{<<port, "LISTEN">>} : port \in PortsOf(SERVER_ORDER[1])}

InitStop ==
    /\ procs \in SUBSET Pids
    /\ parent \in [Pids -> {0} \cup Pids]
    /\ \A p \in Pids : parent[p] # 0 => (p \in procs /\ parent[p] \in procs /\ parent[p] < p)
    /\ conns \in [Pids -> StopSockets]
    /\ \A p \in Pids : conns[p] # {} => p \in procs
    /\ \A p, q \in procs, port \in AllPorts :
          (p < q /\ <<port, "LISTEN">> \in conns[p] /\ <<port, "LISTEN">> \in conns[q])
             => parent[q] = p
    /\ out = [p \in Pids |-> NoOut]
    /\ \E file \in {None} \cup {write_pid(p) : p \in Pids} :
         pidFile = [s \in Servers |-> IF s = SERVER_ORDER[1] THEN file ELSE None]
    /\ logFile = [s \in Servers |-> None]
    /\ sup = [i \in Supervisors |-> IdleSup]
    /\ env = 0

\* the steps of stop_server and of terminate_process_tree
StopSteps(i) ==
    \/ StopRead(i) /\ UNCHANGED env
    \/ StopAfterTerm(i) /\ UNCHANGED env
    \/ StopCandidate(i) /\ UNCHANGED env
    \/ TermResolve(i) /\ UNCHANGED env
    \/ TermChild(i) /\ UNCHANGED env
    \/ TermWaitChildren(i) /\ UNCHANGED env
    \/ TermKill(i) /\ UNCHANGED env
    \/ TermRoot(i) /\ UNCHANGED env
    \/ TermWaitRoot(i) /\ UNCHANGED env

NextStop ==
    \/ UNCHANGED env /\ Invoke(1, "stop", SERVER_ORDER[1], FALSE, 0, TRUE, MaxRunsMain)
    \/ StopSteps(1)
    \/ Counted /\ sup[1].pc # "idle" /\ \E p \in Pids : ProcExit(p)

SpecStop == InitStop /\ [][NextStop]_vars /\ WF_vars(StopSteps(1))

(***************************************************************************)
(* Two supervisor invocations at once: each runs one start of the first    *)
(* server, in any interleaving of their steps, beside processes that exit. *)
(* concurrent records that an invocation began while the other one ran.    *)
(***************************************************************************)
StartSteps(i) ==
    \/ StartCheck(i) /\ UNCHANGED env
    \/ StartSpawn(i) /\ UNCHANGED env
    \/ StartWritePid(i) /\ UNCHANGED env
    \/ StartBgPoll(i) /\ UNCHANGED env
    \/ FgTee(i) /\ UNCHANGED env
    \/ FgFinish(i) /\ UNCHANGED env

NextRace ==
    \/ \E i \in Supervisors, bg \in BOOLEAN :
          UNCHANGED env /\ Invoke(i, "start", SERVER_ORDER[1], bg, 0, TRUE, MaxRunsMain)
    \/ \E i \in Supervisors : StartSteps(i)
    \/ UNCHANGED env /\ \E p \in Pids : ProcExit(p)

SpecRace == Init /\ [][NextRace]_vars

(***************************************************************************)
(* The PID store on its own: the PID file of the first server starts       *)
(* absent or with any text of at most MaxText characters of PidChars, and  *)
(* the three functions are called in any order.  The record of invocation  *)
(* 1 keeps the last two calls, the pid last written (process), the value   *)
(* last read (pid) and the exception a call let through (raised).          *)
(***************************************************************************)
PidChars == {"0", "1", "-", "_", " ", "x"}
PidTexts == UNION {[1..n -> PidChars] : n \in 0..MaxText}
PidServer == SERVER_ORDER[1]

InitPid ==
    /\ procs = {}
    /\ parent = [p \in Pids |-> 0]
    /\ conns = [p \in Pids |-> {}]
    /\ out = [p \in Pids |-> NoOut]
    /\ \E file \in {None} \cup {Some(t) : t \in PidTexts} :
         pidFile = [s \in Servers |-> IF s = PidServer THEN file ELSE None]
    /\ logFile = [s \in Servers |-> None]
    /\ sup = [i \in Supervisors |-> IdleSup]
    /\ env = 0

\* the last call and this one
LastTwo(calls, what) ==
    IF calls = <<>> THEN <<what>> ELSE <<calls[Len(calls)], what>>

\* write_pid(pid_file, p)
PidWrite(p) ==
    /\ sup[1].raised = NoRaise
    /\ pidFile' = [pidFile EXCEPT ![PidServer] = write_pid(p)]
    /\ sup' = [sup EXCEPT ![1].calls = LastTwo(@, "write_pid"), ![1].process = p]
    /\ UNCHANGED <<procs, parent, conns, out, logFile, env>>

\* read_pid(pid_file)
PidRead ==
    LET got == read_pid_call(pidFile[PidServer]) IN
    /\ sup[1].raised = NoRaise
    /\ sup' = [sup EXCEPT ![1].calls = LastTwo(@, "read_pid"),
                          ![1].pid = got.value, ![1].raised = got.raised]
    /\ UNCHANGED <<procs, parent, conns, out, pidFile, logFile, env>>

\* remove_pid_file(pid_file)
PidRemove ==
    LET got == remove_pid_call(pidFile[PidServer]) IN
    /\ sup[1].raised = NoRaise
    /\ pidFile' = [pidFile EXCEPT ![PidServer] = got.file]
    /\ sup' = [sup EXCEPT ![1].calls = LastTwo(@, "remove_pid_file"),
                          ![1].had_file = pidFile[PidServer] # None,
                          ![1].raised = got.raised]
    /\ UNCHANGED <<procs, parent, conns, out, logFile, env>>

NextPid ==
    \/ \E p \in 1..MaxPidValue : PidWrite(p)
    \/ PidRead
    \/ PidRemove

SpecPid == InitPid /\ [][NextPid]_vars

(***************************************************************************)
(* tail_log on its own: the log of the first server starts absent or with  *)
(* any sequence of at most MaxLines lines, and tail_log is called with any *)
(* count of TailArgs.  The record of invocation 1 keeps the count (tail)   *)
(* and the lines returned (report.logs).                                   *)
(***************************************************************************)
LogLines == Pids
LogTexts == UNION {[1..n -> LogLines] : n \in 0..MaxLines}

InitTail ==
    /\ procs = {}
    /\ parent = [p \in Pids |-> 0]
    /\ conns = [p \in Pids |-> {}]
    /\ out = [p \in Pids |-> NoOut]
    /\ pidFile = [s \in Servers |-> None]
    /\ \E file \in {None} \cup {Some(t) : t \in LogTexts} :
         logFile = [s \in Servers |-> IF s = PidServer THEN file ELSE None]
    /\ sup = [i \in Supervisors |-> IdleSup]
    /\ env = 0

\* tail_log(log_file, lines)
TailLog(lines) ==
    /\ sup' = [sup EXCEPT ![1].calls = <<"tail_log">>,
                          ![1].tail = lines,
                          ![1].report.logs = tail_log(logFile[PidServer], lines)]
    /\ UNCHANGED <<procs, parent, conns, out, pidFile, logFile, env>>

NextTail == \E lines \in TailArgs : TailLog(lines)

SpecTail == InitTail /\ [][NextTail]_vars

(***************************************************************************)
(* show_status on its own: one status of the first server, from any        *)
(* process table (at most one listener on the server's port), any PID file *)
(* text of PidTexts and any log of at most MaxLog lines.                   *)
(***************************************************************************)
InitStatus ==
    /\ procs \in SUBSET Pids
    /\ parent = [p \in Pids |-> 0]
    /\ conns \in [Pids -> StopSockets]
    /\ \A p \in Pids : conns[p] # {} => p \in procs
    /\ \A p, q \in procs : (conns[p] # {} /\ conns[q] # {}) => p = q
    /\ out = [p \in Pids |-> NoOut]
    /\ \E file \in {None} \cup {Some(t) : t \in PidTexts} :
         pidFile = [s \in Servers |-> IF s = PidServer THEN file ELSE None]
    /\ \E log \in {None} \cup {Some(t) : t \in {u \in LogTexts : Len(u) <= MaxLog}} :
         logFile = [s \in Servers |-> IF s = PidServer THEN log ELSE None]
    /\ sup = [i \in Supervisors |-> IdleSup]
    /\ env = 0

NextStatus ==
    \/ \E tail \in TailArgs :
          UNCHANGED env /\ Invoke(1, "status", PidServer, FALSE, tail, TRUE, MaxRunsMain)
    \/ ShowStatus(1) /\ UNCHANGED env

SpecStatus == InitStatus /\ [][NextStatus]_vars

(***************************************************************************)
(* Properties.  S1 is the invocation the specifications run.               *)
(***************************************************************************)
S1 == sup[1]
Last(q) == q[Len(q)]
Has(q, x) == \E k \in 1..Len(q) : q[k] = x
Count(q, X) == Cardinality({k \in 1..Len(q) : q[k] \in X})
\* positions of the calls of X in q
Pos(q, X) == {k \in 1..Len(q) : q[k] \in X}
\* the PID file of s holds the identifier of an existing process
RecordedAlive(s) ==
    /\ pidFile[s] # None
    /\ read_pid(pidFile[s]) # None
    /\ read_pid(pidFile[s])[1] \in procs
\* the invocation takes a step of its own
Steps == sup'[1] # sup[1]
\* a handler is running for a server
InHandler == S1.pc \notin {"idle", "exited"} \/ (S1.pc = "exited" /\ S1.idx > 0)

\* C1: a start_server call that finds the PID file holding the pid of an
\* existing process returns without spawning: it never reaches the spawn, no
\* process is created and the PID file is the same after the call.
C1_IdempotentStart ==
    [][(S1.pc = "start_check" /\ RecordedAlive(Config(S1)) /\ Steps)
        => /\ sup'[1].pc # "start_spawn"
           /\ ~Has(sup'[1].calls, "spawn")
           /\ procs' = procs
           /\ pidFile' = pidFile]_vars

\* C1 witness: a start invocation ended as "already running", the PID file
\* still holding the pid of the running process
C1_Witness ==
    /\ S1.pc = "exited" /\ S1.action = "start" /\ S1.exitCode = 0
    /\ S1.calls = <<"already">>
    /\ RecordedAlive(Config(S1))

TermCalls == {"terminate", "terminate_port"}
\* restart_server runs on a server that was running: its first two calls
\* are read_pid and the terminate_process_tree of the recorded pid
RestartOfRunning ==
    /\ S1.action = "restart" /\ InHandler
    /\ Len(S1.calls) >= 2 /\ S1.calls[2] = "terminate"

Bound(s) == {p \in procs : \E port \in PortsOf(s), st \in Statuses : <<port, st>> \in conns[p]}

\* stop_server runs for a server that had no PID file
StopWithoutPidFile ==
    /\ S1.action = "stop" /\ InHandler
    /\ Len(S1.calls) >= 1 /\ ~S1.had_file

C4_ChildrenFirst ==
    S1.pc \in {"term_root", "term_wait_root"} =>
        /\ S1.signalled = S1.children
        /\ S1.todo = {}
        /\ S1.children # {} => S1.waited
        /\ S1.killed = S1.alive

\* C4 witness: the root's request is out, after a descendant was sent its
\* terminate request, survived the wait and was sent its kill
C4_Witness ==
    /\ S1.pc = "term_wait_root"
    /\ S1.children # {}
    /\ S1.killed # {}

\* every targeted server of the invocation has had its start_server called
AllStartsReached == \A k \in 1..Len(S1.configs) : S1.configs[k] \in S1.started

\* C5: when several servers are targeted and the start of one of them hits
\* a fatal precondition error (working directory missing, executable not on
\* the search path), the invocation still ends with the start of every
\* targeted server reached.
C5_FailureIsolation ==
    (/\ S1.pc = "exited"
     /\ Len(S1.configs) > 1
     /\ S1.calls # <<>>
     /\ Last(S1.calls) \in {"nodir", "noexe"})
        => AllStartsReached

\* C6: whenever terminate_process_tree returns true, neither the root nor a
\* descendant enumerated at the start of the call is alive.
C6_TrueMeansStopped ==
    [][(/\ S1.pc \in {"term_root", "term_wait_root"}
        /\ Len(sup'[1].calls) = Len(S1.calls) + 1
        /\ Last(sup'[1].calls) = "ret_true")
        => (S1.children \cup {S1.tpid}) \cap procs' = {}]_vars

\* C7: in a foreground start_server that spawned, the PID file holds the
\* child's pid while start_server streams the child's output and the child
\* exists; and when start_server has returned after the child's exit, the
\* PID file of the server does not exist.
C7_ForegroundPid ==
    /\ (S1.pc = "start_fg_stream" /\ S1.process \in procs)
          => /\ pidFile[Config(S1)] # None
             /\ read_pid(pidFile[Config(S1)]) = Some(S1.process)
    /\ (S1.pc = "exited" /\ S1.calls # <<>> /\ Last(S1.calls) = "fg_exit")
          => /\ Has(S1.calls, "spawn")
             /\ pidFile[Config(S1)] = None

\* C7 witness: a foreground start spawned, the child exited and
\* start_server returned, the PID file being absent
C7_Witness ==
    /\ S1.pc = "exited" /\ S1.exitCode = 0 /\ ~S1.background
    /\ S1.calls # <<>> /\ Last(S1.calls) = "fg_exit"
    /\ Has(S1.calls, "spawn")
    /\ pidFile[Config(S1)] = None

\* z zeros
Zeros(z) == [k \in 1..z |-> "0"]
\* the decimal numerals of at most MaxText characters: an optional sign,
\* leading zeros, the digits of a natural number
Numerals ==
    {u \in {sg \o Zeros(z) \o StrNat(n) :
              sg \in {<<>>, <<"+">>, <<"-">>}, z \in 0..MaxText, n \in 0..(10^MaxText - 1)} :
        Len(u) <= MaxText}
\* the text u is a numeral of the integer v
NumeralOf(u, v) ==
    \E z \in 0..Len(u) :
        \/ v >= 0 /\ u \in {Zeros(z) \o StrNat(v), <<"+">> \o Zeros(z) \o StrNat(v)}
        \/ v <= 0 /\ u = <<"-">> \o Zeros(z) \o StrNat(0 - v)

\* C8: no call of the PID store raises; read_pid right after write_pid(p)
\* yields p; remove_pid_file leaves no file, also when there was none, and
\* read_pid right after it yields none; read_pid yields none when the file
\* is absent or its content is not the numeral of an integer, and the
\* integer the content denotes otherwise.
C8_PidStoreRoundTrip ==
    LET file == pidFile[PidServer] IN
    /\ S1.raised = NoRaise
    /\ S1.calls = <<"write_pid", "read_pid">> => S1.pid = Some(S1.process)
    /\ (S1.calls # <<>> /\ Last(S1.calls) = "remove_pid_file") => file = None
    /\ S1.calls = <<"remove_pid_file", "read_pid">> => S1.pid = None
    /\ (S1.calls # <<>> /\ Last(S1.calls) = "read_pid") =>
          IF file = None THEN S1.pid = None
          ELSE /\ S1.pid = None => Strip(file[1]) \notin Numerals
               /\ S1.pid # None => NumeralOf(NoUnderscores(Strip(file[1])), S1.pid[1])

\* C8 witness: a two-digit pid was written and read back
C8_Witness ==
    /\ S1.calls = <<"write_pid", "read_pid">>
    /\ S1.process >= 10
    /\ S1.pid = Some(S1.process)

\* C9: an invocation that targets more than one server for start or restart
\* without --background runs every start in background mode and ends with
\* the start of every targeted server reached.
C9_AutoPromotion ==
    (/\ Len(S1.configs) > 1
     /\ S1.action \in {"start", "restart"}
     /\ ~S1.flag)
        => /\ S1.background
           /\ S1.pc # "start_fg_stream"
           /\ S1.pc = "exited" => AllStartsReached

\* C10: an invocation with a recognized action that reached its per-server
\* logic ends with exit code 0.
C10_ExitCode ==
    (/\ S1.pc = "exited"
     /\ S1.action \in Actions
     /\ S1.idx >= 1)
        => S1.exitCode = 0

\* the smaller of two numbers
Min(a, b) == IF a < b THEN a ELSE b

\* C11: for a log of L lines and a count N >= 0, tail_log returns the last
\* Min(N, L) lines of the log in their order, and no line for an absent log.
C11_LogTail ==
    S1.calls = <<"tail_log">> =>
        LET log == logFile[PidServer]
            L == IF log = None THEN 0 ELSE Len(log[1])
            k == Min(S1.tail, L)
        IN /\ Len(S1.report.logs) = k
           /\ \A j \in 1..k : S1.report.logs[j] = log[1][L - k + j]

\* stop_server is at "if stopped" with a recorded pid
StopDecides == S1.pc = "stop_after_term" /\ Steps /\ S1.pid # None /\ S1.pid[1] > 0

\* C12: at "if stopped" in stop_server with a recorded pid: after a
\* successful termination the PID file is removed and no port scan is made;
\* after a failed one with the recorded process alive the PID file keeps its
\* content and the ports are scanned; with the recorded process dead the
\* PID file is removed.  The termination result is true only for a recorded
\* pid that was alive and terminated.
C12_StopPidFilePolicy ==
    /\ [](S1.stopped => (Len(S1.calls) >= 3 /\ S1.calls[2] = "terminate"
                           /\ S1.calls[3] = "ret_true"))
    /\ [][StopDecides =>
            LET s == Config(S1) IN
            /\ S1.stopped
                 => /\ pidFile'[s] = None
                    /\ ~sup'[1].scanned
                    /\ sup'[1].pc \in {"exited", "restart_settle"}
            /\ (~S1.stopped /\ S1.pid[1] \in procs)
                 => /\ pidFile' = pidFile
                    /\ sup'[1].scanned
            /\ (~S1.stopped /\ S1.pid[1] \notin procs)
                 => pidFile'[s] = None]_vars

\* C12 witness: a stop whose termination failed ended after the port scan
\* with the recorded process alive and its pid still in the PID file
C12_Witness ==
    /\ S1.pc = "exited" /\ S1.action = "stop" /\ S1.exitCode = 0
    /\ Len(S1.calls) >= 3 /\ S1.calls[3] = "ret_false"
    /\ S1.scanned
    /\ RecordedAlive(Config(S1))

\* the PID file of s holds a positive pid of no existing process
RecordedDead(s) ==
    /\ read_pid(pidFile[s]) # None
    /\ read_pid(pidFile[s])[1] > 0
    /\ read_pid(pidFile[s])[1] \notin procs

\* C13: the step in which show_status, the delayed liveness check of a
\* background start, or stop_server finds the recorded pid dead and
\* completes leaves a PID file that does not hold that pid.
C13_DeadPidCleanup ==
    [][(/\ Steps
        /\ \/ S1.pc = "status"
           \/ S1.pc = "start_bg_poll"
           \/ S1.pc = "stop_after_term" /\ ~S1.stopped
        /\ RecordedDead(Config(S1)))
        => read_pid(pidFile'[Config(S1)]) # read_pid(pidFile[Config(S1)])]_vars

\* C14: a stop_server that scanned the ports ends with
\* terminate_process_tree attempted on every candidate of the scan,
\* whatever the attempts on the other candidates came to.
C14_AllCandidatesAttempted ==
    (S1.pc = "exited" /\ S1.action = "stop" /\ S1.scanned)
        => S1.found \subseteq S1.attempted

\* the processes with a listening socket on a port of server s
ListenersOf(s) == UNION {Listeners(port) : port \in PortsOf(s)}

\* C15: the candidates of stop_server's port scan are processes with a
\* listening socket on an expected port, and all of them when the
\* connection table is read in full.
C15_CandidatesAreListeners ==
    [][(S1.pc = "stop_after_term" /\ Steps /\ sup'[1].scanned)
        => /\ sup'[1].found \subseteq ListenersOf(Config(S1))
           /\ ~sup'[1].scan_error => sup'[1].found = ListenersOf(Config(S1))]_vars

\* start_server is past its spawn
PostSpawn == S1.pc \in {"start_write_pid", "start_bg_poll", "start_fg_stream"}
\* the processes whose output reaches the log of s
Writers(s) == {p \in procs : out[p] \in {LogOut(s), PipeOut(1)}}

\* C16: the spawn of start_server that deleted the existing log leaves a
\* fresh log (empty in background mode, created empty by the foreground
\* stream) to which only the new process holds a handle, while a spawn
\* whose deletion failed keeps the old content; from then on until
\* start_server returns the log only grows, by lines of processes that hold
\* the new handle.
C16_LogTruncation ==
    /\ [][(S1.pc = "start_spawn" /\ Steps) =>
            LET s == Config(S1) IN
            /\ ~sup'[1].append_logs
                 => /\ logFile[s] # None
                    /\ logFile'[s] = IF S1.background THEN Some(<<>>) ELSE None
                    /\ Writers(s)' = {sup'[1].process}
            /\ sup'[1].append_logs
                 => logFile'[s] = IF logFile[s] = None /\ S1.background
                                  THEN Some(<<>>) ELSE logFile[s]]_vars
    /\ [][(PostSpawn /\ logFile'[Config(S1)] # logFile[Config(S1)]) =>
            LET s == Config(S1) IN
            \/ /\ S1.pc = "start_write_pid" /\ ~S1.background
               /\ logFile[s] = None /\ logFile'[s] = Some(<<>>)
            \/ /\ logFile[s] # None
               /\ \E p \in Writers(s) : logFile'[s] = Some(Append(logFile[s][1], p))]_vars

\* C16 witness: a background start deleted the existing log, and the log
\* now holds one line, written by the new process
C16_Witness ==
    /\ S1.pc = "start_bg_poll" /\ ~S1.append_logs
    /\ logFile[Config(S1)] = Some(<<S1.process>>)

\* the positions inside terminate_process_tree, and inside stop_server
InTerminate == S1.pc \in {"term_resolve", "term_children", "term_wait_children",
                          "term_kill", "term_root", "term_wait_root"}
InStop == InTerminate \/ S1.pc \in {"stop_read", "stop_after_term", "stop_candidates"}

\* C17: every terminate_process_tree call and every stop_server call comes
\* to its end (a return, or the exception of the unguarded kill of the
\* root), whatever the processes do: the invocation is again and again
\* outside terminate_process_tree, and outside stop_server.
C17_BoundedStop ==
    /\ []<>(~InTerminate)
    /\ []<>(~InStop)

\* C17 witness: terminate_process_tree returned false after the root
\* outlived its wait and was sent the forceful kill
C17_Witness ==
    /\ ~InStop
    /\ Len(S1.calls) >= 2
    /\ S1.calls[Len(S1.calls) - 1] = "root_kill"
    /\ Last(S1.calls) = "ret_false"
    /\ S1.attempted \cap procs # {}

\* two live processes spawned by start_server for the first server, the
\* PID file holding the pid of one of them only
TwoRootsOneRecorded ==
    /\ Cardinality(Roots(SERVER_ORDER[1])) >= 2
    /\ read_pid(pidFile[SERVER_ORDER[1]]) # None
    /\ read_pid(pidFile[SERVER_ORDER[1]])[1] \in Roots(SERVER_ORDER[1])

\* C18: two live processes spawned for one server exist only when an
\* invocation began while the other one ran; and each write_pid leaves the
\* PID file holding the pid of its writer alone (last writer wins).
C18_StartRace ==
    /\ [](Cardinality(Roots(SERVER_ORDER[1])) >= 2
            => \E i \in Supervisors : sup[i].concurrent)
    /\ [][\A i \in Supervisors :
            (sup[i].pc = "start_write_pid" /\ sup'[i].pc # "start_write_pid")
               => read_pid(pidFile'[SERVER_ORDER[1]]) = Some(sup[i].process)]_vars

\* C18 witness: both invocations have ended, both processes they spawned
\* are alive, and the PID file holds the pid of one of them
C18_Witness ==
    /\ \A i \in Supervisors : sup[i].pc = "exited" /\ Has(sup[i].calls, "spawn")
    /\ TwoRootsOneRecorded

\* the PID file of s holds the pid of a live process spawned for s
RecordedRoot(s) ==
    /\ read_pid(pidFile[s]) # None
    /\ read_pid(pidFile[s])[1] \in Roots(s)

\* C19: with one invocation at a time, no step removes or overwrites a PID
\* file that holds the pid of a live process spawned for the server and
\* still alive after the step; no spawn happens for a server that has a
\* live spawned process; at most one such process per server is alive.
C19_SingleRoot ==
    /\ [](\A s \in Servers : Cardinality(Roots(s)) <= 1)
    /\ [][\A s \in Servers :
            /\ pidFile'[s] # pidFile[s]
                  => ~(RecordedRoot(s) /\ read_pid(pidFile[s])[1] \in procs')
            /\ parent' # parent
                  => (Roots(s) # {} => Roots(s)' \subseteq Roots(s))]_vars

\* C19 witness: a restart of a running server ended; the process it
\* spawned is the only live one spawned for the server, and is recorded
C19_Witness ==
    /\ S1.pc = "exited" /\ S1.action = "restart" /\ S1.exitCode = 0
    /\ Len(S1.calls) >= 3 /\ S1.calls[2] = "terminate"
    /\ Has(S1.calls, "spawn")
    /\ Cardinality(Roots(Config(S1))) = 1
    /\ RecordedRoot(Config(S1))

\* C20: show_status leaves the PID files, the log files and the process
\* table as they are, and reports "Running" exactly when the PID file holds
\* a positive pid of an existing process.
C20_StatusReadOnly ==
    [][(S1.pc = "status" /\ Steps) =>
         /\ pidFile' = pidFile
         /\ logFile' = logFile
         /\ <<procs, parent, conns, out>>' = <<procs, parent, conns, out>>
         /\ sup'[1].report.running
              = (\E p \in procs : p > 0 /\ read_pid(pidFile[Config(S1)]) = Some(p))]_vars

\* C20 witness: a status ended with "Not running" for a PID file that holds
\* the pid of no existing process, and the PID file is still there
C20_Witness ==
    /\ S1.pc = "exited" /\ S1.action = "status"
    /\ ~S1.report.running
    /\ RecordedDead(Config(S1))

====
